---- MODULE Spec2Model ----
(***************************************************************************)
(* Identity resolution of the smithy-rs client runtime                     *)
(* (aws-smithy-runtime-api/src/client/identity.rs): Identity,              *)
(* SharedIdentityResolver, ConfiguredIdentityResolver, the                 *)
(* IdentityResolvers snapshot, and the Storable policies the two stored    *)
(* types declare towards the layered ConfigBag.                            *)
(***************************************************************************)
EXTENDS Naturals, Sequences, FiniteSets

VARIABLES
    heap,       \* the wrapped resolvers: heap[k] is the kind of the one behind Arc k
    layers,     \* the ConfigBag: layer name -> stored type -> the values the layer holds
    stored,     \* history: layer name -> stored type -> every value ever stored, in order
    snap,       \* Option<IdentityResolvers>: the current attempt's snapshot
    input,      \* history: the binding sequence the current snapshot was built from
    visible,    \* history: layer name -> the bindings the layer had stored when it was built
    warned,     \* whether building the current snapshot emitted the tracing::warn!
    atBuild,    \* history: scheme id -> the lookup result right after construction
    first,      \* history: scheme id -> Option of the first lookup on this snapshot: caller, result
    lookup,     \* Option of the last identity_resolver call: caller, scheme_id, result
    identity,   \* Option<Identity>: the identity under test
    cloned,     \* Option<Identity>: its clone
    given,      \* history: Option of the payload and expiration handed to Identity::new
    got,        \* Option of the last accessor call on an identity
    resolved    \* Option of the last resolve_identity call

vars == <<heap, layers, stored, snap, input, visible, warned, atBuild, first, lookup,
          identity, cloned, given, got, resolved>>

configVars   == <<heap, layers, stored>>
snapVars     == <<snap, input, visible, warned, atBuild, first, lookup>>
identityVars == <<identity, cloned, given, got>>

(* ------------------------------ bounds -------------------------------- *)

\* How many bindings are registered in the configuration at most.
MaxBindings == 3
\* How many snapshots are stored into the configuration at most.
MaxSnapshotStores == 2

(* --------------------------- value universes --------------------------- *)

\* Option<T>: None is the empty sequence, Some(x) the one-element sequence.
None == <<>>
Some(x) == <<x>>

\* AuthSchemeId values the negotiator may ask for; only equality matters.
Schemes == {"sigv4", "bearer", "oauth"}

\* The callers that read one snapshot.
Callers == {"negotiator", "signer"}

\* The layers of the ConfigBag, most specific first.
LayerOrder == <<"request", "client">>
LayerNames == {LayerOrder[i] : i \in 1..Len(LayerOrder)}

\* The concrete resolver implementations behind the IdentityResolver trait.
Kinds == {"static", "failing"}

(* ----------------------- SharedIdentityResolver ------------------------ *)

\* SharedIdentityResolver::new: Self(Arc::new(resolver)); the resolver is
\* moved to the heap slot `arc`.
SharedIdentityResolver_new(arc) == [arc |-> arc]

\* #[derive(Clone)] on SharedIdentityResolver(Arc<..>): another handle to the
\* same allocation.
SharedIdentityResolver_clone(self) == [arc |-> self.arc]

(* --------------------- ConfiguredIdentityResolver ---------------------- *)

ConfiguredIdentityResolver_new(auth_scheme, identity_resolver) ==
    [auth_scheme |-> auth_scheme, identity_resolver |-> identity_resolver]

scheme_id(self) == self.auth_scheme

ConfiguredIdentityResolver_identity_resolver(self) ==
    SharedIdentityResolver_clone(self.identity_resolver)

\* #[derive(Clone)] on ConfiguredIdentityResolver: field-wise clone.
ConfiguredIdentityResolver_clone(self) ==
    [auth_scheme |-> self.auth_scheme,
     identity_resolver |-> SharedIdentityResolver_clone(self.identity_resolver)]

(* --------------------------- Storable policies ------------------------- *)

\* A plausible slip: the two Storer declarations exchanged.
Storer_swapped(ty) ==
    IF ty = "ConfiguredIdentityResolver" THEN "StoreReplace" ELSE "StoreAppend"

\* impl Storable for ConfiguredIdentityResolver { type Storer = StoreAppend<Self>; }
\* impl Storable for IdentityResolvers { type Storer = StoreReplace<IdentityResolvers>; }
Storer(ty) ==
    IF ty = "ConfiguredIdentityResolver" THEN "StoreAppend" ELSE "StoreReplace"

(* ------------------ the layered configuration store -------------------- *)

EmptyLayer == [ConfiguredIdentityResolver |-> <<>>, IdentityResolvers |-> <<>>]

\* Storing a value in one layer: an Append type accumulates in insertion
\* order, a Replace type supersedes the layer's prior value.
Layer_store(layer, ty, value) ==
    IF Storer(ty) = "StoreAppend"
    THEN [layer EXCEPT ![ty] = Append(@, value)]
    ELSE [layer EXCEPT ![ty] = <<value>>]

\* The values of type ty in layers i.. of the bag, most specific first.
RECURSIVE LoadFrom(_, _, _)
LoadFrom(bag, ty, i) ==
    IF i > Len(LayerOrder) THEN <<>>
    ELSE bag[LayerOrder[i]][ty] \o LoadFrom(bag, ty, i + 1)

\* The accumulate query of an Append type: every layer's values, the most
\* specific layer's first.
ConfigBag_load_append(bag, ty) == LoadFrom(bag, ty, 1)

\* The point query of a Replace type: the value of the most specific layer
\* that holds one.
RECURSIVE LoadFirst(_, _, _)
LoadFirst(bag, ty, i) ==
    IF i > Len(LayerOrder) THEN None
    ELSE IF bag[LayerOrder[i]][ty] # <<>>
         THEN Some(bag[LayerOrder[i]][ty][Len(bag[LayerOrder[i]][ty])])
         ELSE LoadFirst(bag, ty, i + 1)

ConfigBag_load_replace(bag, ty) == LoadFirst(bag, ty, 1)

\* ConfigBag::load::<T>(): what comes back is decided by T's Storer.
ConfigBag_load(bag, ty) ==
    IF Storer(ty) = "StoreAppend"
    THEN ConfigBag_load_append(bag, ty)
    ELSE ConfigBag_load_replace(bag, ty)

(* --------------------------- IdentityResolvers ------------------------- *)

\* resolvers.cloned(): each yielded &ConfiguredIdentityResolver is cloned.
Cloned(resolvers) ==
    [i \in 1..Len(resolvers) |-> ConfiguredIdentityResolver_clone(resolvers[i])]

\* A plausible slip: collecting into a map keyed by scheme id, which keeps one
\* entry per scheme.
RECURSIVE DedupByScheme(_, _)
DedupByScheme(seq, seen) ==
    IF seq = <<>> THEN <<>>
    ELSE IF scheme_id(Head(seq)) \in seen
         THEN DedupByScheme(Tail(seq), seen)
         ELSE <<Head(seq)>> \o DedupByScheme(Tail(seq), seen \cup {scheme_id(Head(seq))})

IdentityResolvers_new_dedup(resolvers) ==
    LET identity_resolvers == DedupByScheme(Cloned(resolvers), {})
    IN  [value |-> [identity_resolvers |-> identity_resolvers],
         warn  |-> identity_resolvers = <<>>]

\* A plausible slip: the emptiness test of the warning negated.
IdentityResolvers_new_warn_negated(resolvers) ==
    LET identity_resolvers == Cloned(resolvers)
    IN  [value |-> [identity_resolvers |-> identity_resolvers],
         warn  |-> identity_resolvers # <<>>]

\* IdentityResolvers::new: collect the clones into a Vec, warn when it is
\* empty, and return Self either way. value is the returned snapshot, warn
\* whether tracing::warn! ran.
IdentityResolvers_new(resolvers) ==
    LET identity_resolvers == Cloned(resolvers)
    IN  [value |-> [identity_resolvers |-> identity_resolvers],
         warn  |-> identity_resolvers = <<>>]

\* Iterator::find over self.identity_resolvers.iter(): the first entry, from
\* index i on, whose scheme id equals the requested one.
RECURSIVE Find(_, _, _)
Find(entries, scheme, i) ==
    IF i > Len(entries) THEN None
    ELSE IF scheme_id(entries[i]) = scheme THEN Some(entries[i])
         ELSE Find(entries, scheme, i + 1)

\* Option::map(|pair| pair.identity_resolver())
MapIdentityResolver(found) ==
    IF found = None THEN None
    ELSE Some(ConfiguredIdentityResolver_identity_resolver(found[1]))

\* A plausible slip: rfind instead of find (the last match wins).
RECURSIVE RFind(_, _, _)
RFind(entries, scheme, i) ==
    IF i < 1 THEN None
    ELSE IF scheme_id(entries[i]) = scheme THEN Some(entries[i])
         ELSE RFind(entries, scheme, i - 1)

identity_resolver_rfind(self, scheme) ==
    [ret  |-> MapIdentityResolver(
                  RFind(self.identity_resolvers, scheme, Len(self.identity_resolvers))),
     self |-> self]

\* A plausible slip: the snapshot reads through to the live configuration
\* instead of its own copy.
identity_resolver_live(self, scheme) ==
    [ret  |-> MapIdentityResolver(
                  Find(ConfigBag_load(layers, "ConfiguredIdentityResolver"), scheme, 1)),
     self |-> self]

\* A plausible slip: a miss falls back to the first entry.
identity_resolver_fallback(self, scheme) ==
    LET found == Find(self.identity_resolvers, scheme, 1)
    IN  [ret  |-> IF found = None /\ self.identity_resolvers # <<>>
                  THEN MapIdentityResolver(Some(self.identity_resolvers[1]))
                  ELSE MapIdentityResolver(found),
         self |-> self]

\* A plausible slip: the lookup takes the entry it finds out of the snapshot.
RECURSIVE RemoveFirst(_, _)
RemoveFirst(entries, scheme) ==
    IF entries = <<>> THEN <<>>
    ELSE IF scheme_id(Head(entries)) = scheme THEN Tail(entries)
         ELSE <<Head(entries)>> \o RemoveFirst(Tail(entries), scheme)

identity_resolver_take(self, scheme) ==
    [ret  |-> MapIdentityResolver(Find(self.identity_resolvers, scheme, 1)),
     self |-> [identity_resolvers |-> RemoveFirst(self.identity_resolvers, scheme)]]

\* IdentityResolvers::identity_resolver(&self, scheme_id): ret is the returned
\* Option<SharedIdentityResolver>, self the receiver after the call (a shared
\* borrow: as before).
identity_resolver(self, scheme) ==
    [ret  |-> MapIdentityResolver(Find(self.identity_resolvers, scheme, 1)),
     self |-> self]

(* ------------------------------- Identity ------------------------------ *)

\* What callers hand to Identity::new as data: a value val of Rust type ty
\* (MyIdentityData { first, last } and "foo" of the tests).
Payloads ==
    {[ty |-> "MyIdentityData", val |-> <<"foo", "bar">>],
     [ty |-> "MyIdentityData", val |-> <<"bar", "foo">>],
     [ty |-> "&str", val |-> <<"foo">>],
     [ty |-> "&str", val |-> <<"bar">>]}

\* The types a caller may ask Identity::data for.
Types == {"MyIdentityData", "&str", "String"}

\* Option<SystemTime> values.
Expirations == {None, Some(1), Some(2)}

\* Arc::new(data) coerced to Arc<dyn Any + Send + Sync>: the static type is
\* erased, the value keeps its TypeId.
ArcAny_new(data) == [type_id |-> data.ty, value |-> data.val]

\* <dyn Any>::downcast_ref::<T>(): the value when its TypeId is T's.
downcast_ref(any, T) == IF any.type_id = T THEN Some(any.value) ELSE None

Identity_new(data, expiration) ==
    [data |-> ArcAny_new(data), expiration |-> expiration]

\* #[derive(Clone)] on Identity: the Arc is shared, the expiration copied.
Identity_clone(self) == [data |-> self.data, expiration |-> self.expiration]

\* A plausible slip: the downcast made without the type check.
Identity_data_unchecked(self, T) == Some(self.data.value)

\* Identity::data::<T>()
Identity_data(self, T) == downcast_ref(self.data, T)

\* Identity::expiration(): self.expiration.as_ref()
Identity_expiration(self) == self.expiration

(* ------------------------- IdentityResolver ---------------------------- *)

Ok(id) == [ok |-> TRUE, identity |-> Some(id), error |-> None]
Err(e) == [ok |-> FALSE, identity |-> None, error |-> Some(e)]

\* What awaiting IdentityResolver::resolve_identity(&self, config_bag) yields
\* for a resolver of the given kind: a resolver of static credentials, and one
\* whose resolution fails.
IdentityResolver_resolve_identity(kind, config_bag) ==
    IF kind = "static"
    THEN Ok(Identity_new([ty |-> "&str", val |-> <<"foo">>], None))
    ELSE Err("ResolutionFailure")

\* A plausible slip: a failure of the wrapped resolver replaced by a default
\* identity.
SharedIdentityResolver_resolve_identity_swallow(self, config_bag) ==
    LET r == IdentityResolver_resolve_identity(heap[self.arc], config_bag)
    IN  IF r.ok THEN r ELSE Ok(Identity_new([ty |-> "&str", val |-> <<>>], None))

\* impl IdentityResolver for SharedIdentityResolver:
\* self.0.resolve_identity(config_bag)
SharedIdentityResolver_resolve_identity(self, config_bag) ==
    IdentityResolver_resolve_identity(heap[self.arc], config_bag)

(* ------------------------- initial state ------------------------------- *)

NoLookups == [s \in Schemes |-> None]

Init ==
    /\ heap = <<>>
    /\ layers = [l \in LayerNames |-> EmptyLayer]
    /\ stored = [l \in LayerNames |-> EmptyLayer]
    /\ snap = None
    /\ input = <<>>
    /\ visible = [l \in LayerNames |-> <<>>]
    /\ warned = FALSE
    /\ atBuild = NoLookups
    /\ first = NoLookups
    /\ lookup = None
    /\ identity = None
    /\ cloned = None
    /\ given = None
    /\ got = None
    /\ resolved = None

(* ------------------------------ actions -------------------------------- *)

\* Whether some entry of the binding sequence B has scheme id s.
Occurs(B, s) == \E i \in 1..Len(B) : B[i].auth_scheme = s

\* The lowest index of B whose entry has scheme id s.
FirstIndex(B, s) ==
    CHOOSE i \in 1..Len(B) :
        /\ B[i].auth_scheme = s
        /\ \A j \in 1..(i - 1) : B[j].auth_scheme # s


\* A resolver of the given kind is wrapped (SharedIdentityResolver::new),
\* bound to a scheme (ConfiguredIdentityResolver::new) and stored in a layer
\* of the configuration.
Register(l, scheme, kind) ==
    /\ Len(heap) < MaxBindings
    /\ LET binding == ConfiguredIdentityResolver_new(
                          scheme, SharedIdentityResolver_new(Len(heap) + 1))
       IN  /\ heap' = Append(heap, kind)
           /\ layers' = [layers EXCEPT
                  ![l] = Layer_store(@, "ConfiguredIdentityResolver", binding)]
           /\ stored' = [stored EXCEPT
                  ![l]["ConfiguredIdentityResolver"] = Append(@, binding)]
    /\ UNCHANGED <<snapVars, identityVars, resolved>>

\* Attempt start: the snapshot is built from the bindings visible in the
\* configuration; the previous attempt's snapshot is dropped.
BuildSnapshot ==
    LET bindings == ConfigBag_load(layers, "ConfiguredIdentityResolver")
        built == IdentityResolvers_new(bindings)
    IN  /\ snap' = Some(built.value)
        /\ input' = bindings
        /\ visible' = [l \in LayerNames |-> stored[l]["ConfiguredIdentityResolver"]]
        /\ warned' = built.warn
        /\ atBuild' = [s \in Schemes |-> identity_resolver(built.value, s).ret]
        /\ first' = NoLookups
        /\ lookup' = None
        /\ UNCHANGED <<configVars, identityVars, resolved>>

\* A caller asks the snapshot for the resolver of a scheme.
Lookup(caller, scheme) ==
    /\ snap # None
    /\ LET call == identity_resolver(snap[1], scheme)
       IN  /\ lookup' = Some([caller |-> caller, scheme_id |-> scheme, result |-> call.ret])
           /\ snap' = Some(call.self)
           /\ first' = IF first[scheme] = None
                       THEN [first EXCEPT ![scheme] =
                                 Some([caller |-> caller, result |-> call.ret])]
                       ELSE first
    /\ UNCHANGED <<configVars, input, visible, warned, atBuild, identityVars, resolved>>

\* The attempt's snapshot is stored in a layer of the configuration.
StoreSnapshot(l) ==
    /\ snap # None
    /\ Len(stored["request"]["IdentityResolvers"])
         + Len(stored["client"]["IdentityResolvers"]) < MaxSnapshotStores
    /\ layers' = [layers EXCEPT ![l] = Layer_store(@, "IdentityResolvers", snap[1])]
    /\ stored' = [stored EXCEPT ![l]["IdentityResolvers"] = Append(@, snap[1])]
    /\ UNCHANGED <<heap, snapVars, identityVars, resolved>>

\* A handle to the resolver of the i-th visible binding is obtained (the
\* binding's own handle, a clone of it, or the one the binding's accessor
\* returns) and invoked against the configuration.
Resolve(via, i) ==
    LET bindings == ConfigBag_load(layers, "ConfiguredIdentityResolver")
    IN  /\ i \in 1..Len(bindings)
        /\ LET handle ==
                   CASE via = "original" -> bindings[i].identity_resolver
                     [] via = "clone" ->
                            SharedIdentityResolver_clone(bindings[i].identity_resolver)
                     [] via = "binding" ->
                            ConfiguredIdentityResolver_identity_resolver(bindings[i])
               wrapped == LoadFrom(stored, "ConfiguredIdentityResolver", 1)[i]
                              .identity_resolver.arc
           IN  resolved' = Some(
                   [via     |-> via,
                    arc     |-> wrapped,
                    outcome |-> SharedIdentityResolver_resolve_identity(handle, layers),
                    direct  |-> IdentityResolver_resolve_identity(heap[wrapped], layers)])
        /\ UNCHANGED <<configVars, snapVars, identityVars>>

\* The handle a snapshot lookup returns is invoked against the configuration.
ResolveLookup(scheme) ==
    /\ snap # None
    /\ LET call == identity_resolver(snap[1], scheme)
       IN  /\ call.ret # None
           /\ Occurs(input, scheme)
           /\ LET wrapped == input[FirstIndex(input, scheme)].identity_resolver.arc
              IN  resolved' = Some(
                      [via     |-> "lookup",
                       arc     |-> wrapped,
                       outcome |-> SharedIdentityResolver_resolve_identity(call.ret[1], layers),
                       direct  |-> IdentityResolver_resolve_identity(heap[wrapped], layers)])
           /\ snap' = Some(call.self)
    /\ UNCHANGED <<configVars, input, visible, warned, atBuild, first, lookup, identityVars>>

\* Identity::new(data, expiration)
NewIdentity(data, expiration) ==
    /\ identity' = Some(Identity_new(data, expiration))
    /\ given' = Some([data |-> data, expiration |-> expiration])
    /\ cloned' = None
    /\ got' = None
    /\ UNCHANGED <<configVars, snapVars, resolved>>

\* identity.clone()
CloneIdentity ==
    /\ identity # None
    /\ cloned' = Some(Identity_clone(identity[1]))
    /\ UNCHANGED <<identity, given, got, configVars, snapVars, resolved>>

Held(which) == IF which = "original" THEN identity ELSE cloned

\* identity.data::<T>() on the identity or on its clone
ReadData(which, T) ==
    /\ Held(which) # None
    /\ got' = Some([of |-> which, accessor |-> "data", ty |-> T,
                    result |-> Identity_data(Held(which)[1], T)])
    /\ UNCHANGED <<identity, cloned, given, configVars, snapVars, resolved>>

\* identity.expiration() on the identity or on its clone
ReadExpiration(which) ==
    /\ Held(which) # None
    /\ got' = Some([of |-> which, accessor |-> "expiration", ty |-> "SystemTime",
                    result |-> Identity_expiration(Held(which)[1])])
    /\ UNCHANGED <<identity, cloned, given, configVars, snapVars, resolved>>

(* --------------------------- specifications ---------------------------- *)

\* One attempt after another against a configuration that keeps growing.
Next ==
    \/ \E l \in LayerNames, s \in Schemes : Register(l, s, "static")
    \/ BuildSnapshot
    \/ \E s \in Schemes : Lookup("negotiator", s)

Spec == Init /\ [][Next]_vars

\* The configuration store: bindings and snapshots stored in its layers.
NextStore ==
    \/ \E l \in LayerNames, s \in {"sigv4", "bearer"} : Register(l, s, "static")
    \/ BuildSnapshot
    \/ \E l \in LayerNames : StoreSnapshot(l)
    \/ Lookup("negotiator", "sigv4")

SpecStore == Init /\ [][NextStore]_vars

\* Several callers reading one snapshot of a client-level configuration.
NextLookup ==
    \/ \E s \in Schemes : Register("client", s, "static")
    \/ BuildSnapshot
    \/ \E c \in Callers, s \in Schemes : Lookup(c, s)

SpecLookup == Init /\ [][NextLookup]_vars

\* Resolvers of both kinds registered at client level, and invoked through
\* every handle there is to them.
NextResolve ==
    \/ \E s \in Schemes, k \in Kinds : Register("client", s, k)
    \/ BuildSnapshot
    \/ \E via \in {"original", "clone", "binding"}, i \in 1..MaxBindings : Resolve(via, i)
    \/ \E s \in Schemes : ResolveLookup(s)

SpecResolve == Init /\ [][NextResolve]_vars

\* Identities built, cloned and read.
NextIdentity ==
    \/ \E data \in Payloads, expiration \in Expirations : NewIdentity(data, expiration)
    \/ CloneIdentity
    \/ \E which \in {"original", "clone"}, T \in Types : ReadData(which, T)
    \/ \E which \in {"original", "clone"} : ReadExpiration(which)

SpecIdentity == Init /\ [][NextIdentity]_vars

(* ------------------------------ properties ----------------------------- *)

Entries == snap[1].identity_resolvers

\* C1: for every scheme id that occurs in the binding sequence a snapshot was
\* built from, identity_resolver returns the resolver of the lowest-index
\* entry with that scheme id; later entries with it are never returned.
C1_FirstMatchWins ==
    snap # None =>
        \A s \in Schemes :
            Occurs(input, s) =>
                LET expected == Some([arc |-> input[FirstIndex(input, s)].identity_resolver.arc])
                IN  /\ identity_resolver(snap[1], s).ret = expected
                    /\ (lookup # None /\ lookup[1].scheme_id = s) => lookup[1].result = expected

\* The bindings [(sigv4,R1),(bearer,R2),(sigv4,R3)], sigv4 looked up, R1 returned.
C1_Witness ==
    /\ snap # None
    /\ Len(input) = 3
    /\ input[1].auth_scheme = "sigv4" /\ input[1].identity_resolver.arc = 1
    /\ input[2].auth_scheme = "bearer" /\ input[2].identity_resolver.arc = 2
    /\ input[3].auth_scheme = "sigv4" /\ input[3].identity_resolver.arc = 3
    /\ lookup # None
    /\ lookup[1].scheme_id = "sigv4"
    /\ lookup[1].result = Some([arc |-> 1])

\* C2: whatever is registered after a snapshot was built, in whichever layer,
\* every lookup on the snapshot returns what it returned right after
\* construction.
C2_SnapshotIsolation ==
    snap # None =>
        /\ \A s \in Schemes : identity_resolver(snap[1], s).ret = atBuild[s]
        /\ lookup # None => lookup[1].result = atBuild[lookup[1].scheme_id]

\* A lookup made after a later registration changed what the live
\* configuration would answer for the scheme.
C2_Witness ==
    /\ snap # None
    /\ lookup # None
    /\ LoadFrom(stored, "ConfiguredIdentityResolver", 1) # input
    /\ LET live == LoadFrom(stored, "ConfiguredIdentityResolver", 1)
           s == lookup[1].scheme_id
       IN  /\ Occurs(live, s)
           /\ lookup[1].result # Some([arc |-> live[FirstIndex(live, s)].identity_resolver.arc])

\* C5: the snapshot holds as many entries as the input sequence yielded, and
\* its i-th entry has the scheme id and the resolver of the i-th input
\* binding: nothing dropped, deduplicated or reordered.
C5_NewPreservesOrder ==
    snap # None =>
        /\ Len(Entries) = Len(input)
        /\ \A i \in 1..Len(input) :
               /\ i <= Len(Entries)
               /\ Entries[i].auth_scheme = input[i].auth_scheme
               /\ Entries[i].identity_resolver.arc = input[i].identity_resolver.arc

\* A snapshot of three bindings, two of them reusing a scheme id.
C5_Witness ==
    /\ snap # None
    /\ Len(input) = 3
    /\ Len(Entries) = 3
    /\ \E i, j \in 1..3 : i < j /\ Entries[i].auth_scheme = Entries[j].auth_scheme

\* C6: identity_resolver returns None exactly when no entry of the snapshot
\* has the scheme id; after a miss the snapshot is still there and every
\* further lookup can be made.
C6_MissIsNone ==
    snap # None =>
        /\ \A s \in Schemes :
               (identity_resolver(snap[1], s).ret = None) <=> ~Occurs(Entries, s)
        /\ lookup # None =>
               /\ (lookup[1].result = None) <=> ~Occurs(Entries, lookup[1].scheme_id)
               /\ lookup[1].result = None =>
                      \A s \in Schemes : ENABLED Lookup("negotiator", s)

\* A miss on a snapshot that holds bindings of other schemes.
C6_Witness ==
    /\ snap # None
    /\ Entries # <<>>
    /\ lookup # None
    /\ lookup[1].result = None

\* C7: building a snapshot from zero bindings is possible and yields a
\* snapshot (with the warning, which is emitted in no other case); every
\* lookup on it returns None.
C7_EmptySnapshot ==
    /\ LoadFrom(stored, "ConfiguredIdentityResolver", 1) = <<>> => ENABLED BuildSnapshot
    /\ snap # None =>
           /\ warned <=> (input = <<>>)
           /\ input = <<>> =>
                  /\ Entries = <<>>
                  /\ \A s \in Schemes : identity_resolver(snap[1], s).ret = None
                  /\ lookup # None => lookup[1].result = None

\* A snapshot built from an empty configuration, and a lookup on it.
C7_Witness ==
    /\ snap # None
    /\ input = <<>>
    /\ warned
    /\ lookup # None
    /\ lookup[1].result = None

\* C10: a lookup, hit or miss, by whichever caller, leaves the snapshot's
\* entries as they were and returns what the first lookup of that scheme id
\* on the snapshot returned.
C10_LookupsRepeatable ==
    [][\A c \in Callers, s \in Schemes :
           Lookup(c, s) =>
               /\ snap' = snap
               /\ first'[s] # None
               /\ lookup'[1].result = first'[s][1].result]_vars

\* The last lookup, a hit, repeated a lookup another caller made first, and a
\* lookup of another scheme missed in between or before.
C10_Witness ==
    /\ lookup # None
    /\ lookup[1].result # None
    /\ first[lookup[1].scheme_id] # None
    /\ first[lookup[1].scheme_id][1].caller # lookup[1].caller
    /\ \E s \in Schemes : first[s] # None /\ first[s][1].result = None

\* The values the log of one layer holds for a type, as a load over that
\* layer alone would have to return them.
LayerAlone(l) == [x \in LayerNames |-> IF x = l THEN layers[l] ELSE EmptyLayer]

Last(seq) == seq[Len(seq)]

\* C3: within one layer, the bindings stored (Append) are all readable in
\* insertion order, and of the snapshots stored (Replace) only the one stored
\* last is readable.
C3_SameLayerPolicies ==
    \A l \in LayerNames :
        /\ ConfigBag_load(LayerAlone(l), "ConfiguredIdentityResolver")
               = stored[l]["ConfiguredIdentityResolver"]
        /\ ConfigBag_load(LayerAlone(l), "IdentityResolvers")
               = IF stored[l]["IdentityResolvers"] = <<>> THEN None
                 ELSE Some(Last(stored[l]["IdentityResolvers"]))

\* One layer in which two bindings and two different snapshots were stored.
C3_Witness ==
    \E l \in LayerNames :
        /\ Len(stored[l]["ConfiguredIdentityResolver"]) >= 2
        /\ Len(stored[l]["IdentityResolvers"]) = 2
        /\ stored[l]["IdentityResolvers"][1] # stored[l]["IdentityResolvers"][2]

\* C4: across layers, the bindings read are every layer's stored bindings,
\* the request layer's first; the snapshot read is the one stored last in the
\* most specific layer that holds one; and a snapshot built from the bindings
\* read resolves a scheme bound in both layers to the request layer's
\* resolver.
C4_AcrossLayers ==
    /\ ConfigBag_load(layers, "ConfiguredIdentityResolver")
           = stored["request"]["ConfiguredIdentityResolver"]
               \o stored["client"]["ConfiguredIdentityResolver"]
    /\ ConfigBag_load(layers, "IdentityResolvers")
           = IF stored["request"]["IdentityResolvers"] # <<>>
             THEN Some(Last(stored["request"]["IdentityResolvers"]))
             ELSE IF stored["client"]["IdentityResolvers"] # <<>>
                  THEN Some(Last(stored["client"]["IdentityResolvers"]))
                  ELSE None
    /\ snap # None =>
           \A s \in Schemes :
               (Occurs(visible["request"], s) /\ Occurs(visible["client"], s)) =>
                   LET r == visible["request"][FirstIndex(visible["request"], s)]
                              .identity_resolver.arc
                   IN  /\ atBuild[s] = Some([arc |-> r])
                       /\ (lookup # None /\ lookup[1].scheme_id = s)
                              => lookup[1].result = Some([arc |-> r])

\* Both layers hold a snapshot, the two differ, and the attempt's snapshot
\* was asked for a scheme bound first at client level and later at request
\* level.
C4_Witness ==
    /\ stored["request"]["IdentityResolvers"] # <<>>
    /\ stored["client"]["IdentityResolvers"] # <<>>
    /\ Last(stored["request"]["IdentityResolvers"])
           # Last(stored["client"]["IdentityResolvers"])
    /\ snap # None
    /\ lookup # None
    /\ Occurs(visible["request"], lookup[1].scheme_id)
    /\ Occurs(visible["client"], lookup[1].scheme_id)
    /\ visible["client"][1].auth_scheme = lookup[1].scheme_id
    /\ visible["client"][1].identity_resolver.arc = 1

\* C8: the identity built by Identity::new(P, E), and a clone of it, return P
\* when asked for the payload as P's type, absent when asked for any other
\* type, and exactly E as the expiration.
C8_IdentityRoundTrip ==
    /\ got # None =>
           LET P == given[1].data
               E == given[1].expiration
           IN  /\ got[1].accessor = "data" =>
                      got[1].result = IF got[1].ty = P.ty THEN Some(P.val) ELSE None
               /\ got[1].accessor = "expiration" => got[1].result = E
    /\ cloned # None =>
           /\ \A T \in Types : Identity_data(cloned[1], T) = Identity_data(identity[1], T)
           /\ Identity_expiration(cloned[1]) = Identity_expiration(identity[1])

\* A clone of an identity that expires was asked for a type other than the
\* payload's and answered absent.
C8_Witness ==
    /\ got # None
    /\ got[1].of = "clone"
    /\ got[1].accessor = "data"
    /\ got[1].ty # given[1].data.ty
    /\ got[1].result = None
    /\ given[1].expiration # None

\* C9: resolve_identity on any handle (the original, a clone, the one a
\* binding returns, the one a snapshot lookup returns) returns what the one
\* wrapped resolver returns for the same configuration; a failure stays a
\* failure.
C9_ResolveForwards ==
    resolved # None =>
        /\ resolved[1].outcome = resolved[1].direct
        /\ resolved[1].outcome.ok <=> (heap[resolved[1].arc] = "static")

\* A resolver that fails, reached through a snapshot lookup, beside one that
\* succeeds.
C9_Witness ==
    /\ resolved # None
    /\ resolved[1].via = "lookup"
    /\ ~resolved[1].outcome.ok
    /\ \E k \in 1..Len(heap) : heap[k] = "static"

====
